---- MODULE Spec2Model ----
(***************************************************************************)
(* Model of backend/explainer.py: the batch annotation pipeline            *)
(* (process_folder, generate_batch_explanations, call_llm and              *)
(* parse_batch_response).                                                  *)
(*                                                                         *)
(* A Python str is a sequence of one-character strings.  Characters        *)
(* outside ASCII are written as the token of their code point ("U+00E9"). *)
(* Python indices are kept 0-based where the code computes with them (i,  *)
(* idx, model_index, attempt); sequence positions are index + 1.           *)
(***************************************************************************)
EXTENDS Integers, Sequences, FiniteSets, TLC

VARIABLES
    all_files,          \* process_folder: all_files (rel_path, code on disk, counter)
    explanations,       \* process_folder: explanations
    explanation_md,     \* process_folder: explanation_md, one entry per "## n. path" section
    i,                  \* process_folder: offset of the current batch
    batch_data,         \* process_folder: batch_data of the current batch
    batch_explanations, \* process_folder: batch_explanations / parse_batch_response's result
    pc,                 \* position of the single thread of control
    model_index,        \* call_llm: model_index of the innermost invocation
    retries,            \* call_llm: retries of the innermost invocation
    attempt,            \* call_llm: attempt of the innermost invocation's loop
    reqlog,             \* the requests.post calls of the current top-level call_llm
    response,           \* generate_batch_explanations: response / parse_batch_response's input
    expected_count,     \* parse_batch_response: expected_count
    api_key,            \* API_KEY / OPENROUTER_API_KEY: whether the credential is set
    entry,              \* the entry point that runs the pipeline: main() or /upload
    batches,            \* process_folder: the slices all_files[i:i + batch_size] taken so far
    batch_log,          \* the batches recorded so far: offset, and whether call_llm gave up
    paced,              \* the delays between batches slept since the last recording
    last_model,         \* the model of the latest requests.post of the run, -1 before it
    now,                \* app.py: int(time.time()), in seconds since the server started
    handlers,           \* app.py: per request, the endpoint, how far it got, its timestamp
    output_dir,         \* the files under OUTPUT_DIR and its temp_zips, temp_reports
    delivered           \* per request, the entries of the zip its FileResponse sent

vars == <<all_files, explanations, explanation_md, i, batch_data, batch_explanations,
          pc, model_index, retries, attempt, reqlog, response, expected_count,
          api_key, entry, batches, batch_log, paced, last_model,
          now, handlers, output_dir, delivered>>

\* what only the HTTP endpoints of app.py change
server_vars == <<now, handlers, output_dir, delivered>>

\* what only the entry point, the slicing, the recording and the pacing change
run_vars == <<api_key, entry, batches, batch_log, paced, last_model>>

----------------------------------------------------------------------------
(* Bounds of the model *)

MaxFiles == 3
MaxLines == 2
MaxCorpus == 45
MaxRequests == 3
MaxTime == 1

----------------------------------------------------------------------------
(* Characters and strings *)

Digits == <<"0", "1", "2", "3", "4", "5", "6", "7", "8", "9">>

IsDigit(c) == c \in {Digits[n] : n \in 1..10}

Whitespace == {" ", "\t", "\r", "\n"}

NonAscii == {"U+00E9", "U+26A0", "U+FE0F"}

\* str(n) for n >= 0
RECURSIVE str(_)
str(n) == IF n < 10 THEN <<Digits[n + 1]>>
          ELSE str(n \div 10) \o <<Digits[(n % 10) + 1]>>

\* s.encode('ascii', errors='ignore').decode('ascii')
RECURSIVE ascii_ignore(_)
ascii_ignore(s) ==
    IF s = <<>> THEN <<>>
    ELSE IF Head(s) \in NonAscii THEN ascii_ignore(Tail(s))
    ELSE <<Head(s)>> \o ascii_ignore(Tail(s))

\* s.lstrip()
RECURSIVE lstrip(_)
lstrip(s) == IF s # <<>> /\ Head(s) \in Whitespace THEN lstrip(Tail(s)) ELSE s

\* s.rstrip()
RECURSIVE rstrip(_)
rstrip(s) == IF s # <<>> /\ s[Len(s)] \in Whitespace
             THEN rstrip(SubSeq(s, 1, Len(s) - 1)) ELSE s

\* s.strip()
strip(s) == rstrip(lstrip(s))

\* s.split('\n'): the text up to the first line break, then the split of the rest
RECURSIVE split(_)
split(s) ==
    IF \A p \in 1..Len(s) : s[p] # "\n" THEN <<s>>
    ELSE LET first == CHOOSE p \in 1..Len(s) :
                          s[p] = "\n" /\ \A q \in 1..(p - 1) : s[q] # "\n"
         IN  <<SubSeq(s, 1, first - 1)>> \o split(SubSeq(s, first + 1, Len(s)))

\* number of leading characters of s matched by \d* (greedy)
RECURSIVE digit_run(_)
digit_run(s) == IF s # <<>> /\ IsDigit(Head(s)) THEN 1 + digit_run(Tail(s)) ELSE 0

\* re.match(r'^\d+[\.\)]', s)
re_match(s) ==
    LET n == digit_run(s)
    IN  n >= 1 /\ Len(s) > n /\ s[n + 1] \in {".", ")"}

re_sub_keep_space(s) ==
    IF re_match(s)
    THEN SubSeq(s, digit_run(s) + 2, Len(s))
    ELSE s

\* re.sub(r'^\d+[\.\)]\s*', '', s)
re_sub(s) ==
    IF re_match(s)
    THEN lstrip(SubSeq(s, digit_run(s) + 2, Len(s)))
    ELSE s

----------------------------------------------------------------------------
(* parse_batch_response *)

code_file_from_zero(n) ==
    <<"C", "o", "d", "e", " ", "f", "i", "l", "e", " ">> \o str(n - 1)

\* f"Code file {i+1}" with n = i + 1
code_file(n) == <<"C", "o", "d", "e", " ", "f", "i", "l", "e", " ">> \o str(n)

\* the for loop over lines: the explanations list it builds
RECURSIVE collect_explanations(_)
collect_explanations(lines) ==
    IF lines = <<>> THEN <<>>
    ELSE IF re_match(strip(Head(lines)))
         THEN <<re_sub(strip(Head(lines)))>> \o collect_explanations(Tail(lines))
         ELSE collect_explanations(Tail(lines))

parse_batch_response_partial(resp, count) ==
    LET parsed == collect_explanations(split(resp))
    IN  IF Len(parsed) < count
        THEN [n \in 1..count |-> code_file(n)]
        ELSE parsed

parse_batch_response_padded(resp, count) ==
    LET parsed == collect_explanations(split(resp))
    IN  [n \in 1..count |-> IF n <= Len(parsed) THEN parsed[n] ELSE code_file(n)]

parse_batch_response(resp, count) ==
    LET parsed == collect_explanations(split(resp))
    IN  IF Len(parsed) # count
        THEN [n \in 1..count |-> code_file(n)]
        ELSE parsed

----------------------------------------------------------------------------
(* The parser on its own: every text of at most MaxLines lines drawn from  *)
(* LineShapes, and the text Example1, with expected_count in               *)
(* 0..MaxLines + 1.                                                        *)

LineShapes ==
    { num \o sep \o rest :
        num \in {<<>>, <<"1">>, <<"2">>},
        sep \in {<<>>, <<".">>, <<")">>},
        rest \in {<<>>, <<"a">>, <<" ", "a">>} }
    \cup { <<" ", "1", ".", "a">>, <<"1", "2", ".", "a">>, <<"1", ".", "a", " ">> }

RECURSIVE TextsOf(_)
TextsOf(n) ==
    IF n = 1 THEN LineShapes
    ELSE LET shorter == TextsOf(n - 1)
         IN  shorter \cup { t \o <<"\n">> \o l : t \in shorter, l \in LineShapes }

Example1 == <<"1", ".", " ", "a", "\n", "2", ".", " ", "b", "\n">>

Texts == TextsOf(MaxLines) \cup {Example1}

\* the requests the server may receive
Requests == 1..MaxRequests

\* app.py before any request: OUTPUT_DIR holds no file
ServerIdle ==
    /\ now = 0
    /\ handlers = [r \in Requests |-> [kind |-> "none", pc |-> "idle", timestamp |-> 0]]
    /\ output_dir = {}
    /\ delivered = [r \in Requests |-> {}]

InitParse ==
    /\ response \in Texts
    /\ expected_count \in 0..(MaxLines + 1)
    /\ pc = "parse_batch_response"
    /\ batch_explanations = <<>>
    /\ all_files = <<>>
    /\ explanations = <<>>
    /\ explanation_md = <<>>
    /\ i = 0
    /\ batch_data = <<>>
    /\ model_index = 0
    /\ retries = 0
    /\ attempt = 0
    /\ reqlog = <<>>
    /\ api_key = TRUE
    /\ entry = "main"
    /\ batches = <<>>
    /\ batch_log = <<>>
    /\ paced = 0
    /\ last_model = -1
    /\ ServerIdle

ParseReturn ==
    /\ pc = "parse_batch_response"
    /\ batch_explanations' = parse_batch_response(response, expected_count)
    /\ pc' = "parsed"
    /\ UNCHANGED <<all_files, explanations, explanation_md, i, batch_data,
                   model_index, retries, attempt, reqlog, response, expected_count>>
    /\ UNCHANGED run_vars
    /\ UNCHANGED server_vars

NextParse == ParseReturn

SpecParse == InitParse /\ [][NextParse]_vars

----------------------------------------------------------------------------
(* The pipeline: process_folder driving call_llm, batch by batch           *)

FREE_MODELS == <<"qwen/qwen3-coder:free", "google/gemma-2-9b-it:free",
                 "mistralai/mistral-7b-instruct:free">>

\* call_llm: retries: int = 3
DefaultRetries == 3

Min(a, b) == IF a < b THEN a ELSE b
Max(a, b) == IF a > b THEN a ELSE b

batch_size_3_to_5(n) == Min(5, Max(3, n \div 10))

\* batch_size = min(4, max(2, len(all_files) // 10))
batch_size(n) == Min(4, Max(2, n \div 10))

\* the corpora process_folder may have collected: files of at most 30,000 bytes,
\* empty files among them; counter starts at 1 and rel_path names the file
Corpora ==
    UNION { [1..n -> {<<>>, <<"x">>}] : n \in 0..MaxFiles }

FilesOf(codes) ==
    [k \in 1..Len(codes) |-> [rel_path |-> k, code |-> codes[k], counter |-> k]]

\* read_code(file_path)
read_code(file) == file.code

\* what the completion service may answer with a well-formed body
Completions ==
    { <<"1", ".", " ", "a", "\n", "2", ")", " ", "b">>,
      <<"1", ".", " ", "U+00E9", "a">>,
      <<"1", ".">>,
      <<"a">> }

\* requests.post(..., timeout=45) ran into its timeout
TimedOut == <<"t", "i", "m", "e", "d", " ", "o", "u", "t">>

\* resp.raise_for_status() on a status 400: an HTTPError
ClientError ==
    <<"4", "0", "0", " ", "C", "l", "i", "e", "n", "t", " ", "E", "r", "r", "o", "r">>

\* the causes of a requests.exceptions.RequestException, as str(e)
RequestErrors == {TimedOut, ClientError}

\* "⚠️ Explanation unavailable due to API issues"
Unavailable ==
    <<"U+26A0", "U+FE0F", " ", "E", "x", "p", "l", "a", "n", "a", "t", "i", "o", "n", " ",
      "u", "n", "a", "v", "a", "i", "l", "a", "b", "l", "e", " ", "d", "u", "e", " ",
      "t", "o", " ", "A", "P", "I", " ", "i", "s", "s", "u", "e", "s">>

\* f"⚠️ Could not generate explanation due to API error: {e}"
CouldNotGenerate(e) ==
    <<"U+26A0", "U+FE0F", " ", "C", "o", "u", "l", "d", " ", "n", "o", "t", " ",
      "g", "e", "n", "e", "r", "a", "t", "e", " ", "e", "x", "p", "l", "a", "n", "a",
      "t", "i", "o", "n", " ", "d", "u", "e", " ", "t", "o", " ", "A", "P", "I", " ",
      "e", "r", "r", "o", "r", ":", " ">> \o e

\* the texts call_llm returns when it gives up
Failures == {Unavailable} \cup {CouldNotGenerate(e) : e \in RequestErrors}

\* the state in which an entry point is about to run the pipeline over one of the
\* given corpora
InitOver(corpora) ==
    /\ all_files \in {FilesOf(codes) : codes \in corpora}
    /\ explanations = [k \in 1..Len(all_files) |-> <<>>]
    /\ explanation_md = <<>>
    /\ i = 0
    /\ batch_data = <<>>
    /\ batch_explanations = <<>>
    /\ pc = "start"
    /\ model_index = 0
    /\ retries = 0
    /\ attempt = 0
    /\ reqlog = <<>>
    /\ response = <<>>
    /\ expected_count = 0
    /\ api_key \in BOOLEAN
    /\ entry \in {"main", "upload"}
    /\ batches = <<>>
    /\ batch_log = <<>>
    /\ paced = 0
    /\ last_model = -1
    /\ ServerIdle

Init == InitOver(Corpora)

\* main(): without the credential a ValueError is raised before process_folder
Main ==
    /\ pc = "start"
    /\ entry = "main"
    /\ pc' = IF api_key THEN "batch_loop" ELSE "config_error"
    /\ UNCHANGED <<all_files, explanations, explanation_md, i, batch_data,
                   batch_explanations, model_index, retries, attempt, reqlog,
                   response, expected_count>>
    /\ UNCHANGED run_vars
    /\ UNCHANGED server_vars

\* upload_project: the missing credential was only warned about when the module
\* was loaded; process_folder(selected_dir) is called either way
Upload ==
    /\ pc = "start"
    /\ entry = "upload"
    /\ pc' = "batch_loop"
    /\ UNCHANGED <<all_files, explanations, explanation_md, i, batch_data,
                   batch_explanations, model_index, retries, attempt, reqlog,
                   response, expected_count>>
    /\ UNCHANGED run_vars
    /\ UNCHANGED server_vars

\* the bounds <<from, to>> of the slice all_files[i:i + batch_size] of n files
slice_bounds(n, off) == <<off, Min(off + batch_size(n), n)>>

\* all_files[i:i + batch_size]
batch_of(files, off) ==
    SubSeq(files, off + 1, Min(off + batch_size(Len(files)), Len(files)))

\* the "Prepare batch data" loop: the files whose code reads back non-empty
RECURSIVE prepare_batch_data(_)
prepare_batch_data(batch) ==
    IF batch = <<>> THEN <<>>
    ELSE LET code == read_code(Head(batch))
         IN  IF code # <<>>
             THEN <<[rel_path |-> Head(batch).rel_path, code |-> code]>>
                      \o prepare_batch_data(Tail(batch))
             ELSE prepare_batch_data(Tail(batch))

\* One turn of the batch loop up to the call of call_llm: a batch with nothing to
\* send is passed over, without a request and without a delay.
PrepareBatch ==
    /\ pc = "batch_loop"
    /\ i < Len(all_files)
    /\ batch_data' = prepare_batch_data(batch_of(all_files, i))
    /\ IF batch_data' # <<>>
       THEN /\ pc' = "call_llm"
            /\ model_index' = 0
            /\ retries' = DefaultRetries
            /\ attempt' = 0
            /\ reqlog' = <<>>
            /\ i' = i
       ELSE /\ pc' = "batch_loop"
            /\ i' = i + batch_size(Len(all_files))
            /\ UNCHANGED <<model_index, retries, attempt, reqlog>>
    /\ batches' = Append(batches, slice_bounds(Len(all_files), i))
    /\ UNCHANGED <<all_files, explanations, explanation_md, batch_explanations,
                   response, expected_count>>
    /\ UNCHANGED <<api_key, entry, batch_log, paced, last_model>>
    /\ UNCHANGED server_vars

\* FREE_MODELS[model_index % len(FREE_MODELS)], as a 0-based index
current_model(index) == index % Len(FREE_MODELS)

next_model_index_same(index) == index

\* the model_index of the recursive call after a 429
next_model_index(index) == index + 1

\* wait_time = min(120, (2 ** attempt) * 5 + random.uniform(0, 5)), without the
\* random part
rate_limit_wait(a) == Min(120, (2 ^ a) * 5)

\* wait_time = (2 ** attempt) + random.uniform(0, 3), without the random part
transient_wait(a) == 2 ^ a

\* requests.post(...) is called once more; slept tells whether time.sleep(wait_time)
\* is called on its answer
Posted(outcome, cause, slept) ==
    /\ reqlog' = Append(reqlog, [model |-> current_model(model_index),
                                 attempt |-> attempt,
                                 outcome |-> outcome,
                                 cause |-> cause,
                                 slept |-> slept])
    /\ last_model' = current_model(model_index)
    /\ UNCHANGED <<api_key, entry, batches, batch_log, paced>>
    /\ UNCHANGED server_vars

\* call_llm returns text to generate_batch_explanations, which calls the parser
Returns(text) ==
    /\ response' = text
    /\ expected_count' = Len(batch_data)
    /\ pc' = "parse_batch_response"

\* status 429: sleep, then call_llm(prompt, model_index + 1, retries - 1),
\* whose result is returned as it is
PostRateLimited ==
    /\ pc = "call_llm"
    /\ attempt < retries
    /\ Posted("429", <<>>, TRUE)
    /\ model_index' = next_model_index(model_index)
    /\ retries' = retries - 1
    /\ attempt' = 0
    /\ UNCHANGED <<all_files, explanations, explanation_md, i, batch_data,
                   batch_explanations, pc, response, expected_count>>

\* a 2xx answer with choices[0].message.content
PostSuccess(text) ==
    /\ pc = "call_llm"
    /\ attempt < retries
    /\ Posted("success", <<>>, FALSE)
    /\ Returns(ascii_ignore(text))
    /\ UNCHANGED <<all_files, explanations, explanation_md, i, batch_data,
                   batch_explanations, model_index, retries, attempt>>

\* requests.exceptions.RequestException: a timeout, a connection error, or an
\* HTTP error status raised by raise_for_status()
PostRequestException(e) ==
    /\ pc = "call_llm"
    /\ attempt < retries
    /\ Posted("error", e, attempt # retries - 1)
    /\ IF attempt = retries - 1
       THEN /\ Returns(CouldNotGenerate(e))
            /\ UNCHANGED attempt
       ELSE /\ attempt' = attempt + 1
            /\ UNCHANGED <<pc, response, expected_count>>
    /\ UNCHANGED <<all_files, explanations, explanation_md, i, batch_data,
                   batch_explanations, model_index, retries>>

\* a 2xx answer whose JSON body lacks choices[0].message.content: the KeyError,
\* IndexError or TypeError is no RequestException and leaves process_folder
PostMalformedBody ==
    /\ pc = "call_llm"
    /\ attempt < retries
    /\ Posted("malformed", <<>>, FALSE)
    /\ pc' = "raised"
    /\ UNCHANGED <<all_files, explanations, explanation_md, i, batch_data,
                   batch_explanations, model_index, retries, attempt,
                   response, expected_count>>

\* range(retries) is used up without a return
LoopEnd ==
    /\ pc = "call_llm"
    /\ attempt >= retries
    /\ Returns(Unavailable)
    /\ UNCHANGED <<all_files, explanations, explanation_md, i, batch_data,
                   batch_explanations, model_index, retries, attempt, reqlog>>
    /\ UNCHANGED run_vars
    /\ UNCHANGED server_vars

assign_append(slots, off, items) == slots \o items

assign_shifted(slots, off, items) ==
    [k \in 1..Len(slots) |->
        IF k - off + 1 \in 1..Len(items) THEN items[k - off + 1] ELSE slots[k]]

\* the "Assign explanations" loop on the slots: explanations[i + j] = explanation
\* for every j with i + j < len(explanations)
assign(slots, off, items) ==
    [k \in 1..Len(slots) |->
        IF k - off \in 1..Len(items) THEN items[k - off] ELSE slots[k]]

\* the "Assign explanations" loop on the document: one section per item, under the
\* heading of all_files[i + j]
sections(files, off, items) ==
    LET n == Min(Len(items), Len(files) - off)
    IN  [j \in 1..n |-> [counter |-> files[off + j].counter,
                         rel_path |-> files[off + j].rel_path,
                         explanation |-> items[j]]]

Assign ==
    /\ pc = "parsed"
    /\ explanations' = assign(explanations, i, batch_explanations)
    /\ explanation_md' = explanation_md \o sections(all_files, i, batch_explanations)
    /\ pc' = "recorded"
    /\ batch_log' = Append(batch_log, [offset |-> i, failed |-> response \in Failures])
    /\ paced' = 0
    /\ UNCHANGED <<all_files, i, batch_data, batch_explanations, model_index,
                   retries, attempt, reqlog, response, expected_count>>
    /\ UNCHANGED <<api_key, entry, batches, last_model>>
    /\ UNCHANGED server_vars

delay_due_always(off, n) == TRUE

\* if i + batch_size < len(all_files)
delay_due(off, n) == off + batch_size(n) < n

\* the delay between batches (taken when another batch follows) and the loop's step
Pace ==
    /\ pc = "recorded"
    /\ paced' = IF delay_due(i, Len(all_files)) THEN paced + 1 ELSE paced
    /\ i' = i + batch_size(Len(all_files))
    /\ pc' = "batch_loop"
    /\ UNCHANGED <<all_files, explanations, explanation_md, batch_data,
                   batch_explanations, model_index, retries, attempt, reqlog,
                   response, expected_count>>
    /\ UNCHANGED <<api_key, entry, batches, batch_log, last_model>>
    /\ UNCHANGED server_vars

\* the batch loop is over: the outputs are saved
Finish ==
    /\ pc = "batch_loop"
    /\ i >= Len(all_files)
    /\ pc' = "done"
    /\ UNCHANGED <<all_files, explanations, explanation_md, i, batch_data,
                   batch_explanations, model_index, retries, attempt, reqlog,
                   response, expected_count>>
    /\ UNCHANGED run_vars
    /\ UNCHANGED server_vars

Next ==
    \/ Main
    \/ Upload
    \/ PrepareBatch
    \/ PostRateLimited
    \/ \E text \in Completions : PostSuccess(text)
    \/ \E e \in RequestErrors : PostRequestException(e)
    \/ PostMalformedBody
    \/ LoopEnd
    \/ ParseReturn
    \/ Assign
    \/ Pace
    \/ Finish

Spec == Init /\ [][Next]_vars

\* The batch loop alone, over corpora large enough for every batch size:
\* for i in range(0, len(all_files), batch_size): batch = all_files[i:i + batch_size]
LargeCorpora == {[k \in 1..n |-> <<"x">>] : n \in 0..MaxCorpus}

InitBatches ==
    /\ all_files \in {FilesOf(codes) : codes \in LargeCorpora}
    /\ explanations = [k \in 1..Len(all_files) |-> <<>>]
    /\ explanation_md = <<>>
    /\ i = 0
    /\ batch_data = <<>>
    /\ batch_explanations = <<>>
    /\ pc = "slicing"
    /\ model_index = 0
    /\ retries = 0
    /\ attempt = 0
    /\ reqlog = <<>>
    /\ response = <<>>
    /\ expected_count = 0
    /\ api_key = TRUE
    /\ entry = "main"
    /\ batches = <<>>
    /\ batch_log = <<>>
    /\ paced = 0
    /\ last_model = -1
    /\ ServerIdle

Slice ==
    /\ pc = "slicing"
    /\ i < Len(all_files)
    /\ batches' = Append(batches, slice_bounds(Len(all_files), i))
    /\ i' = i + batch_size(Len(all_files))
    /\ UNCHANGED <<all_files, explanations, explanation_md, batch_data,
                   batch_explanations, pc, model_index, retries, attempt, reqlog,
                   response, expected_count, api_key, entry, batch_log, paced,
                   last_model>>
    /\ UNCHANGED server_vars

SliceEnd ==
    /\ pc = "slicing"
    /\ i >= Len(all_files)
    /\ pc' = "sliced"
    /\ UNCHANGED <<all_files, explanations, explanation_md, i, batch_data,
                   batch_explanations, model_index, retries, attempt, reqlog,
                   response, expected_count>>
    /\ UNCHANGED run_vars
    /\ UNCHANGED server_vars

NextBatches == Slice \/ SliceEnd

SpecBatches == InitBatches /\ [][NextBatches]_vars

\* the pipeline over a corpus of seven files with contents: batch size 2, four
\* batches, the last of one file
SevenFiles == {[k \in 1..7 |-> <<"x">>]}

InitSeven == InitOver(SevenFiles)

SpecSeven == InitSeven /\ [][Next]_vars

----------------------------------------------------------------------------
(* app.py: the /upload and /generate-report endpoints of one server process. *)
(* Both handlers are coroutines of one event loop: a handler gives way to    *)
(* the others at "await file.read()" and when it has returned its            *)
(* FileResponse, whose file is read only when the response is sent.          *)

\* what process_folder alone changes
pipeline_vars ==
    <<all_files, explanations, explanation_md, i, batch_data, batch_explanations,
      pc, model_index, retries, attempt, reqlog, response, expected_count,
      api_key, entry, batches, batch_log, paced, last_model>>

\* a PDF document written for request r
pdf(dir, name, stamp, r) ==
    [dir |-> dir, name |-> name, stamp |-> stamp, by |-> r, entries |-> {}]

\* os.path.join(dir, name): two files of the same path are one file
path(f) == <<f.dir, f.name, f.stamp>>

\* a file is written: what was at its path is replaced
write(fs, f) == {g \in fs : path(g) # path(f)} \cup {f}

\* for f in Path(OUTPUT_DIR).glob("*"): if f.is_file() ...: f.unlink()
\* removes the files lying in OUTPUT_DIR itself, not those in its directories
cleared(fs) == {f \in fs : f.dir # "output"}

\* process_folder's "Save outputs": three PDFs in OUTPUT_DIR under fixed names
saved(fs, r) ==
    write(write(write(fs, pdf("output", "code_only.pdf", 0, r)),
                pdf("output", "code_with_explanation.pdf", 0, r)),
          pdf("output", "quiz.pdf", 0, r))

\* for root, _, files in os.walk(OUTPUT_DIR): ... if fname.endswith('.pdf'):
\* z.write(fpath, arcname=fname), over OUTPUT_DIR and all its directories
zipped(fs) ==
    {[name |-> f.name, stamp |-> f.stamp, by |-> f.by] :
        f \in {g \in fs : g.name # "result_bundle.zip"}}

\* result_zip = temp_zips/result_bundle_{timestamp}.zip
result_zip(fs, stamp, r) ==
    [dir |-> "temp_zips", name |-> "result_bundle.zip", stamp |-> stamp, by |-> r,
     entries |-> zipped(fs)]

InitServer ==
    /\ all_files = <<>>
    /\ explanations = <<>>
    /\ explanation_md = <<>>
    /\ i = 0
    /\ batch_data = <<>>
    /\ batch_explanations = <<>>
    /\ pc = "serving"
    /\ model_index = 0
    /\ retries = 0
    /\ attempt = 0
    /\ reqlog = <<>>
    /\ response = <<>>
    /\ expected_count = 0
    /\ api_key = TRUE
    /\ entry = "upload"
    /\ batches = <<>>
    /\ batch_log = <<>>
    /\ paced = 0
    /\ last_model = -1
    /\ ServerIdle

\* time.time() moves on by a second
Tick ==
    /\ now < MaxTime
    /\ now' = now + 1
    /\ UNCHANGED <<handlers, output_dir, delivered>>
    /\ UNCHANGED pipeline_vars

\* upload_project up to "contents = await file.read()": the name of the result zip
\* is fixed from int(time.time())
UploadReceive(r) ==
    /\ handlers[r].pc = "idle"
    /\ handlers' = [handlers EXCEPT ![r] =
                        [kind |-> "upload", pc |-> "read", timestamp |-> now]]
    /\ UNCHANGED <<now, output_dir, delivered>>
    /\ UNCHANGED pipeline_vars

\* upload_project from the read to "return FileResponse(result_zip, ...)": old
\* outputs cleared, process_folder run, every PDF under OUTPUT_DIR zipped
UploadProcess(r) ==
    /\ handlers[r].kind = "upload"
    /\ handlers[r].pc = "read"
    /\ LET outputs == saved(cleared(output_dir), r)
       IN  output_dir' = write(outputs, result_zip(outputs, handlers[r].timestamp, r))
    /\ handlers' = [handlers EXCEPT ![r].pc = "respond"]
    /\ UNCHANGED <<now, delivered>>
    /\ UNCHANGED pipeline_vars

\* upload_project when process_folder raises: the old outputs are already cleared,
\* the request is answered with status 500
UploadAborted(r) ==
    /\ handlers[r].kind = "upload"
    /\ handlers[r].pc = "read"
    /\ output_dir' = cleared(output_dir)
    /\ handlers' = [handlers EXCEPT ![r].pc = "done"]
    /\ UNCHANGED <<now, delivered>>
    /\ UNCHANGED pipeline_vars

\* the FileResponse is sent: the file now at the path of result_zip is read
UploadSend(r) ==
    /\ handlers[r].pc = "respond"
    /\ LET sent == CHOOSE f \in output_dir :
                        path(f) = <<"temp_zips", "result_bundle.zip", handlers[r].timestamp>>
       IN  delivered' = [delivered EXCEPT ![r] = sent.entries]
    /\ handlers' = [handlers EXCEPT ![r].pc = "done"]
    /\ UNCHANGED <<now, output_dir>>
    /\ UNCHANGED pipeline_vars

\* generate_report_endpoint up to "contents = await file.read()"
ReportReceive(r) ==
    /\ handlers[r].pc = "idle"
    /\ handlers' = [handlers EXCEPT ![r] =
                        [kind |-> "report", pc |-> "read", timestamp |-> now]]
    /\ UNCHANGED <<now, output_dir, delivered>>
    /\ UNCHANGED pipeline_vars

\* generate_report_endpoint from the read on: the report is moved to
\* temp_reports/project_analysis_report_{timestamp}.pdf and returned
ReportProcess(r) ==
    /\ handlers[r].kind = "report"
    /\ handlers[r].pc = "read"
    /\ output_dir' = write(output_dir,
                           pdf("temp_reports", "project_analysis_report.pdf",
                               handlers[r].timestamp, r))
    /\ handlers' = [handlers EXCEPT ![r].pc = "done"]
    /\ UNCHANGED <<now, delivered>>
    /\ UNCHANGED pipeline_vars

NextServer ==
    \/ Tick
    \/ \E r \in Requests : UploadReceive(r)
    \/ \E r \in Requests : UploadProcess(r)
    \/ \E r \in Requests : UploadAborted(r)
    \/ \E r \in Requests : UploadSend(r)
    \/ \E r \in Requests : ReportReceive(r)
    \/ \E r \in Requests : ReportProcess(r)

SpecServer == InitServer /\ [][NextServer]_vars

----------------------------------------------------------------------------
(* What the claims about the parser speak of, stated on the text itself    *)

Range(f) == {f[n] : n \in DOMAIN f}

\* the positions of the line breaks of a text
Breaks(t) == {p \in 1..Len(t) : t[p] = "\n"}

\* the k-th line break of a text; 0 before the first line, Len + 1 after the last
BreakAt(t, k) ==
    IF k = 0 THEN 0
    ELSE IF k > Cardinality(Breaks(t)) THEN Len(t) + 1
    ELSE CHOOSE p \in Breaks(t) : Cardinality({q \in Breaks(t) : q < p}) = k - 1

\* the lines of a text, in order
LinesOf(t) ==
    [k \in 1..(Cardinality(Breaks(t)) + 1) |->
        SubSeq(t, BreakAt(t, k - 1) + 1, BreakAt(t, k) - 1)]

\* a line with the whitespace at both ends removed
Trimmed(l) ==
    LET ink == {p \in 1..Len(l) : l[p] \notin Whitespace}
    IN  IF ink = {} THEN <<>>
        ELSE SubSeq(l, CHOOSE p \in ink : \A q \in ink : p <= q,
                       CHOOSE p \in ink : \A q \in ink : q <= p)

\* the line begins with a decimal number followed by '.' or ')'
BeginsNumbered(l) ==
    \E n \in 1..(Len(l) - 1) :
        /\ \A m \in 1..n : IsDigit(l[m])
        /\ l[n + 1] \in {".", ")"}

\* a numbered line without its numeric prefix and the whitespace that follows it
WithoutPrefix(l) ==
    LET n    == CHOOSE n \in 1..(Len(l) - 1) :
                    (\A m \in 1..n : IsDigit(l[m])) /\ l[n + 1] \in {".", ")"}
        rest == {p \in (n + 2)..Len(l) : l[p] \notin Whitespace}
    IN  IF rest = {} THEN <<>>
        ELSE SubSeq(l, CHOOSE p \in rest : \A q \in rest : p <= q, Len(l))

\* the numbered ones among a sequence of lines, in the order of the sequence
Numbered(lines) ==
    LET at == {k \in DOMAIN lines : BeginsNumbered(lines[k])}
    IN  [n \in 1..Cardinality(at) |->
            lines[CHOOSE k \in at : Cardinality({m \in at : m < k}) = n - 1]]

\* the numbered lines of a text as written, in line order
NumberedLines(t) == Numbered(LinesOf(t))

\* the numbered lines of a text once each line is trimmed, in line order
NumberedTrimmedLines(t) ==
    Numbered([k \in DOMAIN LinesOf(t) |-> Trimmed(LinesOf(t)[k])])

Placeholders(count) == [n \in 1..count |-> code_file(n)]

\* C4: parse_batch_response returns exactly expected_count strings, whatever the
\* response text and whatever expected_count >= 0.
C4_ExactlyExpectedCount ==
    pc = "parsed" => Len(batch_explanations) = expected_count

\* a response with more numbered lines than expected has been parsed
C4_Witness ==
    /\ pc = "parsed"
    /\ expected_count = 1
    /\ Len(NumberedTrimmedLines(response)) = 2
    /\ Len(batch_explanations) = 1

\* C5 as claimed: with exactly K lines that begin with a decimal number followed by
\* '.' or ')' and expected_count = K, the result is those lines, in line order, each
\* without its numeric prefix and the whitespace following the prefix (and, the
\* strings being trimmed, without whitespace at its end).
C5_AsClaimed ==
    (pc = "parsed" /\ Len(NumberedLines(response)) = expected_count)
        => batch_explanations =
             [k \in 1..expected_count |->
                 Trimmed(WithoutPrefix(NumberedLines(response)[k]))]

\* C5 amended: the lines are taken with the whitespace at both ends removed. With
\* exactly K trimmed lines that begin with a decimal number followed by '.' or ')'
\* and expected_count = K, the result is those trimmed lines, in line order, each
\* without its numeric prefix and the whitespace following the prefix.
C5_TrimmedNumberedLines ==
    (pc = "parsed" /\ Len(NumberedTrimmedLines(response)) = expected_count)
        => batch_explanations =
             [k \in 1..expected_count |-> WithoutPrefix(NumberedTrimmedLines(response)[k])]

\* the example "1. a\n2. b\n" with expected_count 2 has been parsed into ["a", "b"]
C5_Witness ==
    /\ pc = "parsed"
    /\ response = Example1
    /\ expected_count = 2
    /\ batch_explanations = << <<"a">>, <<"b">> >>

\* C6: when the number of matched lines differs from expected_count the result is
\* exactly "Code file 1" .. "Code file expected_count" and holds no parsed fragment;
\* the result is never a mix of parsed strings and placeholders.
C6_AllOrNothing ==
    pc = "parsed" =>
        /\ Len(NumberedTrimmedLines(response)) # expected_count =>
              /\ batch_explanations = Placeholders(expected_count)
              /\ \A k \in DOMAIN batch_explanations :
                    batch_explanations[k] \notin
                        {WithoutPrefix(l) : l \in Range(NumberedTrimmedLines(response))}
        /\ \/ batch_explanations = Placeholders(expected_count)
           \/ \A k \in DOMAIN batch_explanations :
                 batch_explanations[k] \notin Range(Placeholders(expected_count))

\* one line too few: two lines expected, one numbered line found, placeholders returned
C6_Witness ==
    /\ pc = "parsed"
    /\ expected_count = 2
    /\ Len(NumberedTrimmedLines(response)) = 1
    /\ batch_explanations = Placeholders(2)

----------------------------------------------------------------------------
(* What the claims about the pipeline speak of                             *)

\* the corpus positions of the batch at offset i
BatchRange == (i + 1)..Min(i + batch_size(Len(all_files)), Len(all_files))

\* call_llm gave up: its result is one of its two failure texts
Exhausted == response \in Failures

IsPlaceholder(text) == \E n \in 1..Len(all_files) : text = code_file(n)

\* C1: once process_folder has gone through the corpus, every explanation slot holds
\* a non-empty string, whatever the completion outcomes and the file contents were.
C1_AsClaimed ==
    pc = "done" => \A k \in 1..Len(all_files) : explanations[k] # <<>>

\* C2: the string written to the slot of a file, and printed under that file's
\* heading, is the parsed item at the position the file has in its batch's prompt.
C2_AsClaimed ==
    pc = "recorded" =>
        \A j \in DOMAIN batch_data :
            LET file == batch_data[j].rel_path
            IN  /\ explanations[file] = batch_explanations[j]
                /\ \E n \in DOMAIN explanation_md :
                       explanation_md[n].rel_path = file
                /\ \A n \in DOMAIN explanation_md :
                       explanation_md[n].rel_path = file
                           => explanation_md[n].explanation = batch_explanations[j]

\* C3: the explanation slot sequence has the length of the corpus from its creation
\* on, in every later state of the run.
C3_LengthFixed == Len(explanations) = Len(all_files)

\* the run is over a corpus of two batches, one slot holding parsed text and one
\* holding a placeholder
C3_Witness ==
    /\ pc = "done"
    /\ Len(all_files) > batch_size(Len(all_files))
    /\ \E k \in 1..Len(all_files) : explanations[k] = <<"a">>
    /\ \E k \in 1..Len(all_files) : IsPlaceholder(explanations[k])

\* C7: one top-level call of call_llm with the default budget issues at most 3
\* requests over the whole model chain.
C7_AsClaimed == Len(reqlog) <= DefaultRetries

\* C8: within one top-level call of call_llm, after a 429 on model index m the next
\* request uses (m + 1) mod M, after a request error it uses m again, and the index
\* never moves backwards.
C8_RotationByFailureKind ==
    \A n \in 1..(Len(reqlog) - 1) :
        /\ reqlog[n].outcome = "429"
               => reqlog[n + 1].model = (reqlog[n].model + 1) % Len(FREE_MODELS)
        /\ reqlog[n].outcome = "error" => reqlog[n + 1].model = reqlog[n].model
        /\ reqlog[n + 1].model >= reqlog[n].model

\* a request error, then a 429, then a request on the next model
C8_Witness ==
    /\ Len(reqlog) >= 3
    /\ reqlog[1].outcome = "error" /\ reqlog[2].model = reqlog[1].model
    /\ reqlog[2].outcome = "429" /\ reqlog[3].model = reqlog[2].model + 1

\* C9: a batch whose request ends with its retries exhausted has all its slots
\* filled with placeholders, leaves the slots of the other batches as they are, and
\* the run goes on to the next batch.
C9_AsClaimed ==
    [][/\ (pc = "parsed" /\ Exhausted /\ pc' = "recorded") =>
             /\ \A k \in BatchRange : IsPlaceholder(explanations'[k])
             /\ \A k \in (1..Len(all_files)) \ BatchRange :
                    explanations'[k] = explanations[k]
       /\ (pc = "recorded" /\ Exhausted) => pc' = "batch_loop"]_vars

\* C10: when every request of a batch is answered 429, call_llm returns its failure
\* text once the budget is used up, and the batch's slots receive placeholders.
C10_AsClaimed ==
    (/\ pc = "recorded"
     /\ reqlog # <<>>
     /\ \A n \in DOMAIN reqlog : reqlog[n].outcome = "429")
        => /\ Len(reqlog) = DefaultRetries
           /\ response = Unavailable
           /\ \A k \in BatchRange : IsPlaceholder(explanations[k])

\* C11: with the API credential missing the pipeline aborts before any completion
\* request is issued, whether it was entered through main() or through the /upload
\* handler.
C11_AsClaimed ==
    ~api_key => /\ last_model = -1
                /\ reqlog = <<>>

\* C12: call_llm never raises: every request outcome, a 2xx answer without
\* choices[0].message.content included, ends with call_llm returning a string.
C12_AsClaimed ==
    [][pc = "call_llm" => pc' \in {"call_llm", "parse_batch_response"}]_vars

\* C13: after a request answered with a 4xx status other than 429 no further request
\* is made for the batch; call_llm returns at once the failure text that carries the
\* cause.
C13_AsClaimed ==
    \A n \in DOMAIN reqlog :
        (reqlog[n].outcome = "error" /\ reqlog[n].cause = ClientError)
            => /\ n = Len(reqlog)
               /\ pc # "call_llm"
               /\ response = CouldNotGenerate(ClientError)

\* C14: leaving the random part aside, the wait after a rate-limited attempt is never
\* shorter than the wait after an earlier rate-limited attempt of the same request,
\* and never longer than 120 seconds, whatever failures came before the rate limits.
C14_AsClaimed ==
    \A n, m \in DOMAIN reqlog :
        (n < m /\ reqlog[n].outcome = "429" /\ reqlog[m].outcome = "429")
            => /\ rate_limit_wait(reqlog[n].attempt) <= rate_limit_wait(reqlog[m].attempt)
               /\ rate_limit_wait(reqlog[m].attempt) <= 120
               /\ rate_limit_wait(reqlog[n].attempt) <= 120

\* the text "Code file d" for a digit d
Label(d) == <<"C", "o", "d", "e", " ", "f", "i", "l", "e", " ", d>>

\* of the four batches of a corpus of 7 files only the one at offset 2 had call_llm
\* give up
OnlySecondBatchFailed ==
    /\ Len(all_files) = 7
    /\ Len(batch_log) = 4
    /\ \A n \in DOMAIN batch_log : batch_log[n].failed <=> batch_log[n].offset = 2

\* slot k holds the text that was parsed for file k and printed under its heading
HoldsParsed(k) ==
    \E n \in DOMAIN explanation_md :
        /\ explanation_md[n].rel_path = k
        /\ explanation_md[n].explanation = explanations[k]

SlotsOf(slice) == (slice[1] + 1)..slice[2]

\* the slice taken at offset off
SliceAt(off) == CHOOSE slice \in Range(batches) : slice[1] = off

\* C16: whatever the completion outcomes, every batch that is taken up ends as a
\* recorded batch (its request never leaves the run unfinished), a batch whose
\* request used up its budget is recorded with placeholders in all its slots,
\* nothing is written to the slots of a batch once it is recorded, and when the
\* last batch is behind the loop the run completes.
C16_AsClaimed ==
    [][/\ pc' # "raised"
       /\ pc' = "done" =>
              \A slice \in Range(batches') :
                  \E n \in DOMAIN batch_log' : batch_log'[n].offset = slice[1]
       /\ (pc' = "recorded" /\ batch_log'[Len(batch_log')].failed) =>
              \A k \in BatchRange : IsPlaceholder(explanations'[k])
       /\ \A n \in DOMAIN batch_log :
              \A k \in SlotsOf(SliceAt(batch_log[n].offset)) :
                  explanations'[k] = explanations[k]
       /\ (pc = "batch_loop" /\ i >= Len(all_files)) => pc' = "done"]_vars

\* x brought into lo..hi
Clamp(x, lo, hi) == IF x < lo THEN lo ELSE IF x > hi THEN hi ELSE x

C18_PacingBetweenBatches ==
    [][/\ (pc = "call_llm" /\ reqlog = <<>> /\ reqlog' # <<>> /\ batch_log # <<>>)
              => paced = 1
       /\ pc = "call_llm" => paced' = paced
       /\ (pc = "recorded" /\ Len(all_files) \in BatchRange) => paced' = paced]_vars

\* the second batch is in its retry loop, one delay after the first was recorded
C18_Witness ==
    /\ pc = "call_llm"
    /\ Len(batch_log) = 1
    /\ Len(reqlog) = 2
    /\ paced = 1

\* C19: a slot is written at most once, and the processing of a batch changes only
\* the slots of that batch's own range: a slot changes only in the step that records
\* the batch it belongs to, that step is taken once per batch, and the offset then
\* moves on and never comes back.
C19_WriteOnceInOwnRange ==
    [][/\ \A k \in 1..Len(all_files) :
              explanations'[k] # explanations[k] =>
                  /\ pc = "parsed" /\ pc' = "recorded"
                  /\ k \in BatchRange
                  /\ \A n \in DOMAIN batch_log : k \notin SlotsOf(SliceAt(batch_log[n].offset))
       /\ pc' = "recorded" =>
              \A n \in DOMAIN batch_log : batch_log[n].offset < i'
       /\ i' >= i
       /\ pc = "recorded" => i' > i]_vars

\* both batches of a corpus have been recorded, each into its own slots
C19_Witness ==
    /\ pc = "done"
    /\ Len(batch_log) = 2
    /\ explanations[1] = <<"a">>
    /\ explanations[2] = <<"b">>
    /\ explanations[3] = Label("1")

\* C20: the first request of a batch uses a model index no lower than the index the
\* last request of the batch before it used; the rotation is carried from batch to
\* batch and never goes back.
C20_AsClaimed ==
    [][(reqlog' # <<>> /\ Len(reqlog') = 1 /\ last_model # -1)
           => reqlog'[1].model >= last_model]_vars

\* C21: every wait slept inside call_llm is followed by another request: after the
\* answer to the last request the budget allows, rate limited or failed, call_llm
\* returns its failure text without sleeping first.
C21_AsClaimed ==
    \A n \in DOMAIN reqlog :
        reqlog[n].slept => \/ n < Len(reqlog)
                           \/ pc = "call_llm" /\ attempt < retries

\* C22: whatever /upload and /generate-report requests were served and however they
\* were interleaved, the zip sent in answer to an /upload request holds only PDFs
\* made from that request's own files: no document of another upload, no analysis
\* report, no content of a bundle written over by another upload of the same second.
C22_AsClaimed ==
    \A r \in Requests : \A e \in delivered[r] : e.by = r


====
